---- MODULE Spec2Model ----
(***************************************************************************)
(* Model of the prompt registry MCP server (mcp-server/src): the in-memory *)
(* catalog and analytics of PromptRegistryMCP and the tool-call request    *)
(* handler of index.ts.                                                    *)
(*                                                                         *)
(* Conventions.  JavaScript strings are TLA+ strings.  An optional value   *)
(* (an argument or field that may be undefined) is a sequence of length 0  *)
(* (None) or 1 (Some(v)).  JavaScript numbers that take fractional values  *)
(* (scores, rates, averages) are exact rationals [n, d] in lowest terms;   *)
(* floating-point rounding is not modelled.                                *)
(***************************************************************************)
EXTENDS Integers, Sequences, FiniteSets, TLC

VARIABLES packages, analytics, openai, pending, response, hist

vars == <<packages, analytics, openai, pending, response, hist>>

-----------------------------------------------------------------------------
(* Bounds of the model *)

\* track_prompt_usage calls and grade_prompt_execution calls made in one run
MaxTrackCalls == 2
MaxGradeCalls == 2
\* state-changing calls made in one run of the whole server
MaxUpdates == 2
\* grading calls waiting for the backend at once
MaxInFlight == 2
\* largest limit argument
MaxLimit == 3
\* pieces a generated input text is concatenated from
MaxPieces == 3
\* longest generated list of requested transformations
MaxTransforms == 2

-----------------------------------------------------------------------------
(* Optional values *)

None == <<>>
Some(v) == <<v>>
IsSome(o) == Len(o) = 1
Val(o) == o[1]

\* JavaScript truthiness of an optional string: undefined and "" are falsy.
TruthyStr(o) == IsSome(o) /\ Val(o) # ""

\* JavaScript truthiness of an optional integer: undefined and 0 are falsy.
TruthyNum(o) == IsSome(o) /\ Val(o) # 0

\* a || b on optional strings / integers
OrStr(o, dflt) == IF TruthyStr(o) THEN Val(o) ELSE dflt
OrNum(o, dflt) == IF TruthyNum(o) THEN Val(o) ELSE dflt

Min(a, b) == IF a <= b THEN a ELSE b
Max(a, b) == IF a >= b THEN a ELSE b

-----------------------------------------------------------------------------
(* Exact rational arithmetic for JavaScript numbers *)

Abs(x) == IF x < 0 THEN -x ELSE x

RECURSIVE GCD(_, _)
GCD(a, b) == IF b = 0 THEN a ELSE GCD(b, a % b)

Rat(n, d) ==
  LET g == GCD(Abs(n), Abs(d))
      s == IF d < 0 THEN -1 ELSE 1
  IN  [n |-> (s * n) \div g, d |-> (s * d) \div g]

Num(k) == [n |-> k, d |-> 1]
RAdd(a, b) == Rat(a.n * b.d + b.n * a.d, a.d * b.d)
RSub(a, b) == Rat(a.n * b.d - b.n * a.d, a.d * b.d)
RMul(a, b) == Rat(a.n * b.n, a.d * b.d)
RDiv(a, b) == Rat(a.n * b.d, a.d * b.n)
RLe(a, b) == a.n * b.d <= b.n * a.d
RLt(a, b) == a.n * b.d < b.n * a.d
RGe(a, b) == RLe(b, a)
RGt(a, b) == RLt(b, a)

\* truthiness of an optional number: undefined and 0 are falsy
TruthyRat(o) == IsSome(o) /\ Val(o).n # 0
OrRat(o, dflt) == IF TruthyRat(o) THEN Val(o) ELSE dflt

-----------------------------------------------------------------------------
(* Strings *)

CharAt(s, i) == SubSeq(s, i, i)

LowerOf(c) ==
  CASE c = "A" -> "a" [] c = "B" -> "b" [] c = "C" -> "c" [] c = "D" -> "d"
    [] c = "E" -> "e" [] c = "F" -> "f" [] c = "G" -> "g" [] c = "H" -> "h"
    [] c = "I" -> "i" [] c = "J" -> "j" [] c = "K" -> "k" [] c = "L" -> "l"
    [] c = "M" -> "m" [] c = "N" -> "n" [] c = "O" -> "o" [] c = "P" -> "p"
    [] c = "Q" -> "q" [] c = "R" -> "r" [] c = "S" -> "s" [] c = "T" -> "t"
    [] c = "U" -> "u" [] c = "V" -> "v" [] c = "W" -> "w" [] c = "X" -> "x"
    [] c = "Y" -> "y" [] c = "Z" -> "z" [] OTHER -> c

\* characters lo..hi of s in lower case (halving keeps the recursion shallow)
RECURSIVE LowerRange(_, _, _)
LowerRange(s, lo, hi) ==
  IF lo > hi THEN ""
  ELSE IF lo = hi THEN LowerOf(CharAt(s, lo))
  ELSE LET mid == (lo + hi) \div 2
       IN  LowerRange(s, lo, mid) \o LowerRange(s, mid + 1, hi)

\* String.prototype.toLowerCase
toLowerCase(s) == LowerRange(s, 1, Len(s))

\* String.prototype.includes
includes(s, sub) ==
  \E i \in 1..(Len(s) - Len(sub) + 1) : SubSeq(s, i, i + Len(sub) - 1) = sub

\* Array.prototype.includes on a sequence
arrayIncludes(a, v) == \E i \in 1..Len(a) : a[i] = v

\* slice keeping one entry more than the limit
sliceInclusive(a, limit) == SubSeq(a, 1, Min(limit + 1, Len(a)))

\* Array.prototype.slice(0, limit) for a non-negative integer limit
slice(a, limit) == SubSeq(a, 1, Min(limit, Len(a)))

-----------------------------------------------------------------------------
(* Map<string, V>: a sequence of [key, value] entries in insertion order *)

MapHas(m, k) == \E i \in 1..Len(m) : m[i].key = k
MapIndex(m, k) == CHOOSE i \in 1..Len(m) : m[i].key = k
MapGet(m, k) == m[MapIndex(m, k)].value

\* Map.prototype.set: an existing key keeps its position, a new key is appended
MapSet(m, k, v) ==
  IF MapHas(m, k)
  THEN [m EXCEPT ![MapIndex(m, k)] = [key |-> k, value |-> v]]
  ELSE Append(m, [key |-> k, value |-> v])

\* Map.prototype.values(), in insertion order
MapValues(m) == [i \in 1..Len(m) |-> m[i].value]

\* Array.prototype.find as an index: the first index satisfying P, 0 if none
FindIndex(a, P(_)) ==
  IF \E j \in 1..Len(a) : P(a[j])
  THEN CHOOSE j \in 1..Len(a) : P(a[j]) /\ \A k \in 1..(j - 1) : ~P(a[k])
  ELSE 0

-----------------------------------------------------------------------------
(* Registry contents on disk, read once by the constructor *)

DefaultVersion == "1.0.0"
DefaultLimit == 10

\* one parsed prompt YAML file
PromptFile(id, name, content, version, description, tags, usage_count, success_rate) ==
  [id |-> id, name |-> name, content |-> content, version |-> version,
   description |-> description, tags |-> tags, usage_count |-> usage_count,
   success_rate |-> success_rate]

\* one subdirectory of <registry>/packages
PackageDir(dir, hasMetadata, metaName, prompts) ==
  [dir |-> dir, hasMetadata |-> hasMetadata, metaName |-> metaName,
   prompts |-> prompts]

\* the prompts.push of loadPackages: one Prompt per prompt file, with defaults
loadPrompt(promptData) ==
  [id |-> promptData.id,
   name |-> promptData.name,
   content |-> promptData.content,
   version |-> OrStr(promptData.version, DefaultVersion),
   description |-> promptData.description,
   tags |-> IF IsSome(promptData.tags) THEN Val(promptData.tags) ELSE <<>>,
   usage_count |-> OrNum(promptData.usage_count, 0),
   success_rate |-> promptData.success_rate]

RECURSIVE loadPackagesFrom(_, _, _)
loadPackagesFrom(dirs, i, acc) ==
  IF i > Len(dirs) THEN acc
  ELSE LET d == dirs[i] IN
       IF ~d.hasMetadata THEN loadPackagesFrom(dirs, i + 1, acc)
       ELSE LET packageData ==
                  [name |-> OrStr(d.metaName, d.dir),
                   prompts |-> [j \in 1..Len(d.prompts) |-> loadPrompt(d.prompts[j])]]
            IN  loadPackagesFrom(dirs, i + 1,
                                 MapSet(acc, packageData.name, packageData))

\* the catalog after construction; disk = None when <registry>/packages is absent
loadPackages(disk) ==
  IF ~IsSome(disk) THEN <<>> ELSE loadPackagesFrom(Val(disk), 1, <<>>)

RECURSIVE loadAnalyticsFrom(_, _, _)
loadAnalyticsFrom(files, i, acc) ==
  IF i > Len(files) THEN acc
  ELSE loadAnalyticsFrom(files, i + 1, MapSet(acc, files[i].prompt_id, files[i]))

\* the analytics after construction; disk = None when <registry>/analytics is absent
loadAnalytics(disk) ==
  IF ~IsSome(disk) THEN <<>> ELSE loadAnalyticsFrom(Val(disk), 1, <<>>)

-----------------------------------------------------------------------------
(* Views of the catalog *)

\* all prompts in catalog order: package insertion order, then in-package order
RECURSIVE AllPromptsFrom(_, _)
AllPromptsFrom(pkgs, i) ==
  IF i > Len(pkgs) THEN <<>>
  ELSE pkgs[i].value.prompts \o AllPromptsFrom(pkgs, i + 1)

AllPrompts(pkgs) == AllPromptsFrom(pkgs, 1)

\* method outcomes: a returned value or a thrown Error
Return(v) == [threw |-> FALSE, value |-> v]
Throw(msg) == [threw |-> TRUE, message |-> msg]

\* the { content: [{ type: "text", text: JSON.stringify(payload) }] } result;
\* the serialized text is represented by the payload it serializes
TextResult(payload) == [content |-> <<[type |-> "text", json |-> payload]>>]

-----------------------------------------------------------------------------
(* listPrompts *)

listPrompts(pkgs, args) ==
  LET limit == IF IsSome(args.limit) THEN Val(args.limit) ELSE DefaultLimit
      allPrompts ==
        IF TruthyStr(args.package_name)
        THEN IF MapHas(pkgs, Val(args.package_name))
             THEN MapGet(pkgs, Val(args.package_name)).prompts
             ELSE <<>>
        ELSE AllPrompts(pkgs)
      limitedPrompts == slice(allPrompts, limit)
  IN  Return(TextResult([prompts |-> limitedPrompts,
                         total |-> Len(allPrompts),
                         returned |-> Len(limitedPrompts)]))

-----------------------------------------------------------------------------
(* getPrompt *)

\* getPromptMatches without the version test
getPromptMatchesAnyVersion(p, prompt_id, version) == p.id = prompt_id

\* the predicate of both find calls, lines 207 and 213
getPromptMatches(p, prompt_id, version) ==
  p.id = prompt_id /\ (~TruthyStr(version) \/ p.version = Val(version))

\* prompts.find(...) in one package: Some(prompt) or None
findInPackage(prompts, prompt_id, version) ==
  LET M(p) == getPromptMatches(p, prompt_id, version)
      j == FindIndex(prompts, M)
  IN  IF j = 0 THEN None ELSE Some(prompts[j])

\* the loop of lines 211-216 over this.packages.values()
RECURSIVE findInPackages(_, _, _, _)
findInPackages(pkgs, i, prompt_id, version) ==
  IF i > Len(pkgs) THEN None
  ELSE LET f == findInPackage(pkgs[i].value.prompts, prompt_id, version)
       IN  IF IsSome(f) THEN f ELSE findInPackages(pkgs, i + 1, prompt_id, version)

getPromptNotFound(prompt_id, version) ==
  "Prompt '" \o prompt_id \o "' not found" \o
  (IF TruthyStr(version) THEN " (version " \o Val(version) \o ")" ELSE "")

getPrompt(pkgs, args) ==
  LET foundPrompt ==
        IF TruthyStr(args.package_name)
        THEN IF MapHas(pkgs, Val(args.package_name))
             THEN findInPackage(MapGet(pkgs, Val(args.package_name)).prompts,
                                args.prompt_id, args.version)
             ELSE None
        ELSE findInPackages(pkgs, 1, args.prompt_id, args.version)
  IN  IF ~IsSome(foundPrompt)
      THEN Throw(getPromptNotFound(args.prompt_id, args.version))
      ELSE Return(TextResult(Val(foundPrompt)))

-----------------------------------------------------------------------------
(* trackPromptUsage *)

\* trackFrom without the break: the first match of every package is counted
RECURSIVE trackFromNoBreak(_, _, _)
trackFromNoBreak(pkgs, i, prompt_id) ==
  IF i > Len(pkgs) THEN pkgs
  ELSE LET M(p) == p.id = prompt_id
           j == FindIndex(pkgs[i].value.prompts, M)
       IN  IF j = 0 THEN trackFromNoBreak(pkgs, i + 1, prompt_id)
           ELSE trackFromNoBreak(
                  [pkgs EXCEPT ![i].value.prompts[j].usage_count = @ + 1],
                  i + 1, prompt_id)

\* trackFrom counting down instead of up
RECURSIVE trackFromDecrement(_, _, _)
trackFromDecrement(pkgs, i, prompt_id) ==
  IF i > Len(pkgs) THEN pkgs
  ELSE LET M(p) == p.id = prompt_id
           j == FindIndex(pkgs[i].value.prompts, M)
       IN  IF j = 0 THEN trackFromDecrement(pkgs, i + 1, prompt_id)
           ELSE [pkgs EXCEPT ![i].value.prompts[j].usage_count = @ - 1]

\* the loop of lines 743-749: the catalog after the increment
RECURSIVE trackFrom(_, _, _)
trackFrom(pkgs, i, prompt_id) ==
  IF i > Len(pkgs) THEN pkgs
  ELSE LET M(p) == p.id = prompt_id
           j == FindIndex(pkgs[i].value.prompts, M)
       IN  IF j = 0 THEN trackFrom(pkgs, i + 1, prompt_id)
           ELSE [pkgs EXCEPT ![i].value.prompts[j].usage_count = @ + 1]

trackPromptUsage(pkgs, args) ==
  [packages |-> trackFrom(pkgs, 1, args.prompt_id),
   outcome |-> Return(TextResult([message |-> "Usage tracked successfully",
                                  prompt_id |-> args.prompt_id,
                                  usage_count |-> "incremented"]))]

-----------------------------------------------------------------------------
(* searchPrompts *)

matchesQuery(prompt, query) ==
  \/ includes(toLowerCase(prompt.name), toLowerCase(query))
  \/ includes(toLowerCase(prompt.content), toLowerCase(query))
  \/ /\ IsSome(prompt.description)
     /\ includes(toLowerCase(Val(prompt.description)), toLowerCase(query))

\* !tags || tags.some(tag => prompt.tags.includes(tag)); an empty array is truthy
matchesTags(prompt, tags) ==
  \/ ~IsSome(tags)
  \/ \E i \in 1..Len(Val(tags)) : arrayIncludes(prompt.tags, Val(tags)[i])

\* the matching prompts in encounter order (the loops of lines 241-255)
RECURSIVE filterMatches(_, _, _, _)
filterMatches(prompts, i, query, tags) ==
  IF i > Len(prompts) THEN <<>>
  ELSE (IF matchesQuery(prompts[i], query) /\ matchesTags(prompts[i], tags)
        THEN <<prompts[i]>> ELSE <<>>)
       \o filterMatches(prompts, i + 1, query, tags)

\* (p.usage_count || 0) + (p.success_rate || 0) * 100
rankScore(p) ==
  RAdd(Num(p.usage_count), RMul(OrRat(p.success_rate, Num(0)), Num(100)))

\* the comparator of results.sort: negative when a sorts before b
compareRank(a, b) == RSub(rankScore(b), rankScore(a))

\* insertSorted placing x before the elements it ties with
RECURSIVE insertSortedBeforeTies(_, _)
insertSortedBeforeTies(sorted, x) ==
  IF sorted = <<>> THEN <<x>>
  ELSE IF compareRank(Head(sorted), x).n >= 0
       THEN <<x>> \o sorted
       ELSE <<Head(sorted)>> \o insertSortedBeforeTies(Tail(sorted), x)

\* insert x after every element that does not sort after it
RECURSIVE insertSorted(_, _)
insertSorted(sorted, x) ==
  IF sorted = <<>> THEN <<x>>
  ELSE IF compareRank(Head(sorted), x).n > 0
       THEN <<x>> \o sorted
       ELSE <<Head(sorted)>> \o insertSorted(Tail(sorted), x)

\* Array.prototype.sort with compareRank: a stable sort
RECURSIVE sortFrom(_, _, _)
sortFrom(a, i, acc) ==
  IF i > Len(a) THEN acc ELSE sortFrom(a, i + 1, insertSorted(acc, a[i]))

sortByRank(a) == sortFrom(a, 1, <<>>)

searchPrompts(pkgs, args) ==
  LET limit == IF IsSome(args.limit) THEN Val(args.limit) ELSE DefaultLimit
      results == sortByRank(filterMatches(AllPrompts(pkgs), 1, args.query, args.tags))
      limitedResults == slice(results, limit)
  IN  Return(TextResult([results |-> limitedResults,
                         total |-> Len(results),
                         returned |-> Len(limitedResults)]))

-----------------------------------------------------------------------------
(* Rule-based grader *)

\* String.prototype.split(sep) for a one-character separator: the pieces
\* between consecutive separator positions
split(s, sep) ==
  LET seps == {i \in 1..Len(s) : CharAt(s, i) = sep}
      n == Cardinality(seps)
      pos(k) == CHOOSE i \in seps : Cardinality({j \in seps : j < i}) = k - 1
  IN  [k \in 1..(n + 1) |->
         SubSeq(s, IF k = 1 THEN 1 ELSE pos(k - 1) + 1,
                   IF k = n + 1 THEN Len(s) ELSE pos(k) - 1)]

\* array.some(w => text.includes(w))
someIncluded(words, text) == \E i \in 1..Len(words) : includes(text, words[i])

\* Math.max(1.0, Math.min(10.0, score))
clamp(score) == Max(1, Min(10, score))

errorIndicators == <<"i don't know", "i can't", "i'm not sure", "i don't have access">>

actionWords == <<"here's", "you can", "try", "use", "follow", "steps">>

\* scoreAccuracy adding the two points for a hedging phrase
scoreAccuracyRewardsHedging(user_input, ai_response) ==
  LET s0 == 5
      s1 == IF someIncluded(errorIndicators, toLowerCase(ai_response))
            THEN s0 + 2 ELSE s0
      s2 == IF Len(ai_response) > 50 THEN s1 + 1 ELSE s1
  IN  clamp(s2)

scoreAccuracy(user_input, ai_response) ==
  LET s0 == 5
      s1 == IF someIncluded(errorIndicators, toLowerCase(ai_response))
            THEN s0 - 2 ELSE s0
      s2 == IF Len(ai_response) > 50 THEN s1 + 1 ELSE s1
  IN  clamp(s2)

\* ai_response.length > user_input.length * 0.5, without the fraction
scoreHelpfulness(user_input, ai_response) ==
  LET s0 == 5
      s1 == IF 2 * Len(ai_response) > Len(user_input) THEN s0 + 2 ELSE s0
      s2 == IF someIncluded(actionWords, toLowerCase(ai_response))
            THEN s1 + 1 ELSE s1
  IN  clamp(s2)

scoreCompleteness(user_input, ai_response) ==
  LET s0 == 5
      s1 == IF Len(ai_response) > Len(user_input) * 2 THEN s0 + 2 ELSE s0
      s2 == IF \/ Len(split(ai_response, "\n")) > 2
               \/ Len(split(ai_response, ".")) > 3
            THEN s1 + 1 ELSE s1
  IN  clamp(s2)

RECURSIVE sumLengths(_, _)
sumLengths(parts, i) ==
  IF i > Len(parts) THEN 0 ELSE Len(parts[i]) + sumLengths(parts, i + 1)

\* avgLength > 10 && avgLength < 50, with avgLength = sum / sentences.length
scoreClarity(ai_response) ==
  LET s0 == 5
      s1 == IF includes(ai_response, "\n") THEN s0 + 1 ELSE s0
      sentences == split(ai_response, ".")
      total == sumLengths(sentences, 1)
      s2 == IF /\ Len(sentences) > 1
               /\ total > 10 * Len(sentences)
               /\ total < 50 * Len(sentences)
            THEN s1 + 1 ELSE s1
  IN  clamp(s2)

SuccessThreshold == 7

gradeWithRules(prompt_id, user_input, ai_response) ==
  LET accuracy == scoreAccuracy(user_input, ai_response)
      helpfulness == scoreHelpfulness(user_input, ai_response)
      completeness == scoreCompleteness(user_input, ai_response)
      clarity == scoreClarity(ai_response)
      overallScore == Rat(accuracy + helpfulness + completeness + clarity, 4)
  IN  [prompt_id |-> prompt_id,
       user_input |-> user_input,
       ai_response |-> ai_response,
       overall_score |-> overallScore,
       accuracy |-> Num(accuracy),
       helpfulness |-> Num(helpfulness),
       completeness |-> Num(completeness),
       clarity |-> Num(clarity),
       reasoning |-> "Rule-based grading",
       grader_type |-> "rule_based",
       is_successful |-> RGe(overallScore, Num(SuccessThreshold))]

-----------------------------------------------------------------------------
(* Model-delegated grader *)

DefaultScore == 5

\* What the backend call produces: the request rejects ("error"), the content
\* is not a JSON object ("unparseable"), or it parses to gradeData, whose
\* fields may each be absent.
BackendError(cause) == [kind |-> "error", cause |-> cause]
BackendUnparseable(cause) == [kind |-> "unparseable", cause |-> cause]
BackendJson(overall_score, accuracy, helpfulness, completeness, clarity, reasoning) ==
  [kind |-> "json",
   gradeData |-> [overall_score |-> overall_score, accuracy |-> accuracy,
                  helpfulness |-> helpfulness, completeness |-> completeness,
                  clarity |-> clarity, reasoning |-> reasoning]]

\* gradeWithLLM answering a failed backend call with the default scores
gradeWithLLMSwallowsFailure(prompt_id, user_input, ai_response, reply) ==
  LET gradeData == IF reply.kind = "json" THEN reply.gradeData
                   ELSE [overall_score |-> None, accuracy |-> None,
                         helpfulness |-> None, completeness |-> None,
                         clarity |-> None, reasoning |-> None]
  IN  Return([prompt_id |-> prompt_id,
              user_input |-> user_input,
              ai_response |-> ai_response,
              overall_score |-> OrRat(gradeData.overall_score, Num(DefaultScore)),
              accuracy |-> OrRat(gradeData.accuracy, Num(DefaultScore)),
              helpfulness |-> OrRat(gradeData.helpfulness, Num(DefaultScore)),
              completeness |-> OrRat(gradeData.completeness, Num(DefaultScore)),
              clarity |-> OrRat(gradeData.clarity, Num(DefaultScore)),
              reasoning |-> OrStr(gradeData.reasoning, "LLM grading"),
              grader_type |-> "llm",
              is_successful |->
                RGe(OrRat(gradeData.overall_score, Num(DefaultScore)),
                    Num(SuccessThreshold))])

\* lines 482-506, from the point where the awaited backend call settles
gradeWithLLM(prompt_id, user_input, ai_response, reply) ==
  IF reply.kind # "json"
  THEN Throw("LLM grading failed: " \o reply.cause)
  ELSE LET gradeData == reply.gradeData IN
       Return([prompt_id |-> prompt_id,
               user_input |-> user_input,
               ai_response |-> ai_response,
               overall_score |-> OrRat(gradeData.overall_score, Num(DefaultScore)),
               accuracy |-> OrRat(gradeData.accuracy, Num(DefaultScore)),
               helpfulness |-> OrRat(gradeData.helpfulness, Num(DefaultScore)),
               completeness |-> OrRat(gradeData.completeness, Num(DefaultScore)),
               clarity |-> OrRat(gradeData.clarity, Num(DefaultScore)),
               reasoning |-> OrStr(gradeData.reasoning, "LLM grading"),
               grader_type |-> "llm",
               is_successful |->
                 RGe(OrRat(gradeData.overall_score, Num(DefaultScore)),
                     Num(SuccessThreshold))])

-----------------------------------------------------------------------------
(* Analytics *)

\* updateAnalytics weighting the old average by the new total_uses
updateAnalyticsStaleWeight(an, grade) ==
  IF MapHas(an, grade.prompt_id)
  THEN LET existing == MapGet(an, grade.prompt_id)
           total_uses == existing.total_uses + 1
           successful_uses ==
             IF grade.is_successful THEN existing.successful_uses + 1
             ELSE existing.successful_uses
           failed_uses ==
             IF grade.is_successful THEN existing.failed_uses
             ELSE existing.failed_uses + 1
       IN  MapSet(an, grade.prompt_id,
             [prompt_id |-> existing.prompt_id,
              total_uses |-> total_uses,
              successful_uses |-> successful_uses,
              failed_uses |-> failed_uses,
              success_rate |-> Rat(successful_uses, total_uses),
              average_score |->
                RDiv(RAdd(RMul(existing.average_score, Num(total_uses)),
                          grade.overall_score),
                     Num(total_uses))])
  ELSE MapSet(an, grade.prompt_id,
         [prompt_id |-> grade.prompt_id,
          total_uses |-> 1,
          successful_uses |-> IF grade.is_successful THEN 1 ELSE 0,
          failed_uses |-> IF grade.is_successful THEN 0 ELSE 1,
          success_rate |-> IF grade.is_successful THEN Num(1) ELSE Num(0),
          average_score |-> grade.overall_score])

\* last_updated and the two unpopulated lists are left out of the record
\* updateAnalytics writing a fresh record over the one it should extend
updateAnalyticsForgetsExisting(an, grade) ==
  MapSet(an, grade.prompt_id,
    [prompt_id |-> grade.prompt_id,
     total_uses |-> 1,
     successful_uses |-> IF grade.is_successful THEN 1 ELSE 0,
     failed_uses |-> IF grade.is_successful THEN 0 ELSE 1,
     success_rate |-> IF grade.is_successful THEN Num(1) ELSE Num(0),
     average_score |-> grade.overall_score])

updateAnalytics(an, grade) ==
  IF MapHas(an, grade.prompt_id)
  THEN LET existing == MapGet(an, grade.prompt_id)
           total_uses == existing.total_uses + 1
           successful_uses ==
             IF grade.is_successful THEN existing.successful_uses + 1
             ELSE existing.successful_uses
           failed_uses ==
             IF grade.is_successful THEN existing.failed_uses
             ELSE existing.failed_uses + 1
       IN  MapSet(an, grade.prompt_id,
             [prompt_id |-> existing.prompt_id,
              total_uses |-> total_uses,
              successful_uses |-> successful_uses,
              failed_uses |-> failed_uses,
              success_rate |-> Rat(successful_uses, total_uses),
              average_score |->
                RDiv(RAdd(RMul(existing.average_score, Num(total_uses - 1)),
                          grade.overall_score),
                     Num(total_uses))])
  ELSE MapSet(an, grade.prompt_id,
         [prompt_id |-> grade.prompt_id,
          total_uses |-> 1,
          successful_uses |-> IF grade.is_successful THEN 1 ELSE 0,
          failed_uses |-> IF grade.is_successful THEN 0 ELSE 1,
          success_rate |-> IF grade.is_successful THEN Num(1) ELSE Num(0),
          average_score |-> grade.overall_score])

getPromptAnalytics(an, args) ==
  IF ~MapHas(an, args.prompt_id)
  THEN Throw("No analytics found for prompt '" \o args.prompt_id \o "'")
  ELSE Return(TextResult(MapGet(an, args.prompt_id)))

\* line 419: the model-delegated grader is used only when it is requested
\* and a backend client exists
usesLLM(args, client) ==
  IsSome(args.grader_type) /\ Val(args.grader_type) = "llm" /\ client

\* lines 435-445: fold the grade into the analytics and return it
finishGrade(an, grade) ==
  [analytics |-> updateAnalytics(an, grade),
   outcome |-> Return(TextResult(grade))]

-----------------------------------------------------------------------------
(* Text normalizer *)

WhiteSpace == {" ", "\n", "\t", "\r"}
LineTerminators == {"\n", "\r"}
Punctuation == {",", ".", "!", "?"}
LowerLetters ==
  {"a", "b", "c", "d", "e", "f", "g", "h", "i", "j", "k", "l", "m",
   "n", "o", "p", "q", "r", "s", "t", "u", "v", "w", "x", "y", "z"}
Digits == {"0", "1", "2", "3", "4", "5", "6", "7", "8", "9"}

isLetter(c) == LowerOf(c) \in LowerLetters
\* the regular-expression class \w
isWordChar(c) == isLetter(c) \/ c \in Digits \/ c = "_"

UpperOf(c) ==
  CASE c = "a" -> "A" [] c = "b" -> "B" [] c = "c" -> "C" [] c = "d" -> "D"
    [] c = "e" -> "E" [] c = "f" -> "F" [] c = "g" -> "G" [] c = "h" -> "H"
    [] c = "i" -> "I" [] c = "j" -> "J" [] c = "k" -> "K" [] c = "l" -> "L"
    [] c = "m" -> "M" [] c = "n" -> "N" [] c = "o" -> "O" [] c = "p" -> "P"
    [] c = "q" -> "Q" [] c = "r" -> "R" [] c = "s" -> "S" [] c = "t" -> "T"
    [] c = "u" -> "U" [] c = "v" -> "V" [] c = "w" -> "W" [] c = "x" -> "X"
    [] c = "y" -> "Y" [] c = "z" -> "Z" [] OTHER -> c

startsWithAt(s, i, sub) ==
  i + Len(sub) - 1 <= Len(s) /\ SubSeq(s, i, i + Len(sub) - 1) = sub

\* the first index >= i holding a non-whitespace character, Len(s)+1 if none
RECURSIVE skipSpaces(_, _)
skipSpaces(s, i) ==
  IF i <= Len(s) /\ CharAt(s, i) \in WhiteSpace THEN skipSpaces(s, i + 1) ELSE i

\* the last index <= i holding a non-whitespace character, 0 if none
RECURSIVE skipSpacesBack(_, _)
skipSpacesBack(s, i) ==
  IF i >= 1 /\ CharAt(s, i) \in WhiteSpace THEN skipSpacesBack(s, i - 1) ELSE i

\* String.prototype.trim
trim(s) == SubSeq(s, skipSpaces(s, 1), skipSpacesBack(s, Len(s)))

\* String.prototype.indexOf as a 1-based index from position i, 0 if absent
RECURSIVE indexFrom(_, _, _)
indexFrom(s, sub, i) ==
  IF i + Len(sub) - 1 > Len(s) THEN 0
  ELSE IF startsWithAt(s, i, sub) THEN i ELSE indexFrom(s, sub, i + 1)

\* s.replace(/^(hi|hello|hey)\s*,?\s*/i, "") on lowercased text
stripGreeting(s) ==
  LET g == IF startsWithAt(s, 1, "hi") THEN 2
           ELSE IF startsWithAt(s, 1, "hello") THEN 5
           ELSE IF startsWithAt(s, 1, "hey") THEN 3
           ELSE 0
      a == skipSpaces(s, g + 1)
      b == IF a <= Len(s) /\ CharAt(s, a) = "," THEN a + 1 ELSE a
      c == skipSpaces(s, b)
  IN  IF g = 0 THEN s ELSE SubSeq(s, c, Len(s))

\* s.replace(/<phrase>(.*)/i, "<rep>$1"): the first occurrence of the phrase
\* is replaced by rep; the captured rest of the line is kept as it is
replacePhrase(s, phrase, rep) ==
  LET i == indexFrom(s, phrase, 1)
  IN  IF i = 0 THEN s
      ELSE SubSeq(s, 1, i - 1) \o rep \o SubSeq(s, i + Len(phrase), Len(s))

\* the end of the line that position i is on: the index before the next
\* line terminator at or after i
RECURSIVE lineEnd(_, _)
lineEnd(s, i) ==
  IF i > Len(s) \/ CharAt(s, i) \in LineTerminators THEN i - 1
  ELSE lineEnd(s, i + 1)

\* the last index j in lo..hi where sub starts, 0 if none
RECURSIVE lastIndexIn(_, _, _, _)
lastIndexIn(s, sub, lo, hi) ==
  IF hi < lo THEN 0
  ELSE IF startsWithAt(s, hi, sub) THEN hi ELSE lastIndexIn(s, sub, lo, hi - 1)

\* s.replace(/how does (.*) work/i, "explain $1"): leftmost "how does " that
\* has " work" later on its line; the capture is greedy
RECURSIVE replaceHowDoes(_, _)
replaceHowDoes(s, from) ==
  LET i == indexFrom(s, "how does ", from)
      e == lineEnd(s, i + 9)
      j == lastIndexIn(s, " work", i + 9, e - 4)
  IN  IF i = 0 THEN s
      ELSE IF j = 0 THEN replaceHowDoes(s, i + 1)
      ELSE SubSeq(s, 1, i - 1) \o "explain " \o SubSeq(s, i + 9, j - 1)
           \o SubSeq(s, j + 5, Len(s))

\* normalizeIntent stopping at the first rewrite that matches
normalizeIntentFirstMatchOnly(text) ==
  LET n1 == stripGreeting(trim(toLowerCase(text)))
      n2 == replacePhrase(n1, "can you ", "")
      n3 == replacePhrase(n1, "could you ", "")
      n4 == replacePhrase(n1, "would you ", "")
      n5 == replacePhrase(n1, "please ", "")
      n6 == replacePhrase(n1, "tell me ", "explain ")
      n7 == replaceHowDoes(n1, 1)
      n8 == replacePhrase(n1, "what is ", "define ")
  IN  trim(IF n2 # n1 THEN n2 ELSE IF n3 # n1 THEN n3 ELSE IF n4 # n1 THEN n4
           ELSE IF n5 # n1 THEN n5 ELSE IF n6 # n1 THEN n6
           ELSE IF n7 # n1 THEN n7 ELSE n8)

\* normalizeIntent without the trim of line 345
normalizeIntentNoFinalTrim(text) ==
  LET n0 == trim(toLowerCase(text))
      n1 == stripGreeting(n0)
      n2 == replacePhrase(n1, "can you ", "")
      n3 == replacePhrase(n2, "could you ", "")
      n4 == replacePhrase(n3, "would you ", "")
      n5 == replacePhrase(n4, "please ", "")
      n6 == replacePhrase(n5, "tell me ", "explain ")
      n7 == replaceHowDoes(n6, 1)
  IN  replacePhrase(n7, "what is ", "define ")

normalizeIntent(text) ==
  LET n0 == trim(toLowerCase(text))
      n1 == stripGreeting(n0)
      n2 == replacePhrase(n1, "can you ", "")
      n3 == replacePhrase(n2, "could you ", "")
      n4 == replacePhrase(n3, "would you ", "")
      n5 == replacePhrase(n4, "please ", "")
      n6 == replacePhrase(n5, "tell me ", "explain ")
      n7 == replaceHowDoes(n6, 1)
      n8 == replacePhrase(n7, "what is ", "define ")
  IN  trim(n8)

\* \b at the gap before position i (between s[i-1] and s[i])
wordBoundary(s, i) ==
  LET before == i > 1 /\ isWordChar(CharAt(s, i - 1))
      after == i <= Len(s) /\ isWordChar(CharAt(s, i))
  IN  before # after

\* does /\b(w)\b/i match at position i
wordAt(s, i, w) ==
  /\ i + Len(w) - 1 <= Len(s)
  /\ toLowerCase(SubSeq(s, i, i + Len(w) - 1)) = w
  /\ wordBoundary(s, i)
  /\ wordBoundary(s, i + Len(w))

\* s.replace(/\b(w1|w2|...)\b/gi, "")
RECURSIVE removeWordsFrom(_, _, _)
removeWordsFrom(s, words, i) ==
  IF i > Len(s) THEN ""
  ELSE IF \E k \in 1..Len(words) : wordAt(s, i, words[k])
       THEN LET k == CHOOSE k \in 1..Len(words) :
                       /\ wordAt(s, i, words[k])
                       /\ \A m \in 1..(k - 1) : ~wordAt(s, i, words[m])
            IN  removeWordsFrom(s, words, i + Len(words[k]))
       ELSE CharAt(s, i) \o removeWordsFrom(s, words, i + 1)

\* the first index >= i not holding character c
RECURSIVE skipChar(_, _, _)
skipChar(s, c, i) ==
  IF i <= Len(s) /\ CharAt(s, i) = c THEN skipChar(s, c, i + 1) ELSE i

\* s.replace(/[c]{2,}/g, c)
RECURSIVE collapseRuns(_, _, _)
collapseRuns(s, c, i) ==
  IF i > Len(s) THEN ""
  ELSE IF CharAt(s, i) = c
       THEN c \o collapseRuns(s, c, skipChar(s, c, i))
       ELSE CharAt(s, i) \o collapseRuns(s, c, i + 1)

noisePatterns ==
  << <<"um", "uh", "like", "you know", "basically", "literally">>,
     <<"please", "thanks", "thank you">>,
     <<"can you", "could you", "would you">> >>

removeNoise(text) ==
  LET c1 == removeWordsFrom(text, noisePatterns[1], 1)
      c2 == removeWordsFrom(c1, noisePatterns[2], 1)
      c3 == removeWordsFrom(c2, noisePatterns[3], 1)
      c4 == collapseRuns(c3, "!", 1)
      c5 == collapseRuns(c4, "?", 1)
      c6 == collapseRuns(c5, ".", 1)
  IN  trim(c6)

\* s.replace(/\s+/g, " ")
RECURSIVE collapseSpaces(_, _)
collapseSpaces(s, i) ==
  IF i > Len(s) THEN ""
  ELSE IF CharAt(s, i) \in WhiteSpace
       THEN " " \o collapseSpaces(s, skipSpaces(s, i))
       ELSE CharAt(s, i) \o collapseSpaces(s, i + 1)

\* s.replace(/\s+([,.!?])/g, "$1")
RECURSIVE unspacePunctuation(_, _)
unspacePunctuation(s, i) ==
  IF i > Len(s) THEN ""
  ELSE LET j == skipSpaces(s, i) IN
       IF j > i /\ j <= Len(s) /\ CharAt(s, j) \in Punctuation
       THEN CharAt(s, j) \o unspacePunctuation(s, j + 1)
       ELSE CharAt(s, i) \o unspacePunctuation(s, i + 1)

\* s.replace(/([,.!?])([A-Za-z])/g, "$1 $2")
RECURSIVE spaceAfterPunctuation(_, _)
spaceAfterPunctuation(s, i) ==
  IF i > Len(s) THEN ""
  ELSE IF /\ CharAt(s, i) \in Punctuation
          /\ i < Len(s)
          /\ isLetter(CharAt(s, i + 1))
       THEN CharAt(s, i) \o " " \o CharAt(s, i + 1)
            \o spaceAfterPunctuation(s, i + 2)
       ELSE CharAt(s, i) \o spaceAfterPunctuation(s, i + 1)

standardizeFormat(text) ==
  LET f1 == trim(collapseSpaces(text, 1))
      f2 == unspacePunctuation(f1, 1)
      f3 == spaceAfterPunctuation(f2, 1)
  IN  IF f3 # "" /\ LowerOf(CharAt(f3, 1)) = CharAt(f3, 1)
      THEN UpperOf(CharAt(f3, 1)) \o SubSeq(f3, 2, Len(f3))
      ELSE f3

\* new Set(s.toLowerCase())
charSet(s) == {CharAt(toLowerCase(s), i) : i \in 1..Len(s)}

calculateConfidence(original, processed) ==
  IF original = processed THEN Num(1)
  ELSE LET originalChars == charSet(original)
           processedChars == charSet(processed)
           intersection == Cardinality(originalChars \cap processedChars)
           union == Cardinality(originalChars \cup processedChars)
       IN  IF 10 * intersection > 8 * union THEN Rat(9, 10)
           ELSE IF 10 * intersection > 6 * union THEN Rat(7, 10)
           ELSE IF 10 * intersection > 4 * union THEN Rat(5, 10)
           ELSE Rat(3, 10)

defaultTransformations == <<"intent_normalization", "noise_removal">>

\* applyTransform recording a name the switch does not know
applyTransformRecordsAll(st, transform) ==
  IF transform = "intent_normalization"
  THEN [text |-> normalizeIntent(st.text),
        applied |-> Append(st.applied, "intent_normalization")]
  ELSE IF transform = "noise_removal"
  THEN [text |-> removeNoise(st.text),
        applied |-> Append(st.applied, "noise_removal")]
  ELSE IF transform = "format_standardization"
  THEN [text |-> standardizeFormat(st.text),
        applied |-> Append(st.applied, "format_standardization")]
  ELSE [text |-> st.text, applied |-> Append(st.applied, transform)]

\* the switch of lines 295-308 on one requested transformation
applyTransform(st, transform) ==
  IF transform = "intent_normalization"
  THEN [text |-> normalizeIntent(st.text),
        applied |-> Append(st.applied, "intent_normalization")]
  ELSE IF transform = "noise_removal"
  THEN [text |-> removeNoise(st.text),
        applied |-> Append(st.applied, "noise_removal")]
  ELSE IF transform = "format_standardization"
  THEN [text |-> standardizeFormat(st.text),
        applied |-> Append(st.applied, "format_standardization")]
  ELSE st

RECURSIVE applyTransforms(_, _, _)
applyTransforms(st, transforms, i) ==
  IF i > Len(transforms) THEN st
  ELSE applyTransforms(applyTransform(st, transforms[i]), transforms, i + 1)

\* the ProcessedInput that preprocessInput serializes
processInput(input_text, transformations) ==
  LET transformsToApply ==
        IF IsSome(transformations) THEN Val(transformations)
        ELSE defaultTransformations
      st == applyTransforms([text |-> input_text, applied |-> <<>>],
                            transformsToApply, 1)
  IN  [original_input |-> input_text,
       processed_input |-> st.text,
       transformations_applied |-> st.applied,
       confidence |-> calculateConfidence(input_text, st.text)]

preprocessInput(args) ==
  Return(TextResult(processInput(args.input_text, args.transformations)))

-----------------------------------------------------------------------------
(* getBestPrompt *)

\* the three tag rules of lines 675-690 for one prompt
tagRuleMatches(inputLower, prompt) ==
  LET promptTags == [i \in 1..Len(prompt.tags) |-> toLowerCase(prompt.tags[i])]
  IN  \/ includes(inputLower, "code") /\ arrayIncludes(promptTags, "code")
      \/ includes(inputLower, "customer") /\ arrayIncludes(promptTags, "customer")
      \/ includes(inputLower, "explain") /\ arrayIncludes(promptTags, "educational")

\* findByTags trying the rules one after the other over the whole catalog
findByTagsRulePriority(pkgs, i, inputLower) ==
  LET all == AllPrompts(pkgs)
      Tagged(p, tag) ==
        \E t \in 1..Len(p.tags) : toLowerCase(p.tags[t]) = tag
      Code(p) == includes(inputLower, "code") /\ Tagged(p, "code")
      Customer(p) == includes(inputLower, "customer") /\ Tagged(p, "customer")
      Educational(p) == includes(inputLower, "explain") /\ Tagged(p, "educational")
      j == IF FindIndex(all, Code) # 0 THEN FindIndex(all, Code)
           ELSE IF FindIndex(all, Customer) # 0 THEN FindIndex(all, Customer)
           ELSE FindIndex(all, Educational)
  IN  IF j = 0 THEN None ELSE Some(all[j])

\* the loops of lines 671-693: the first prompt, package by package, that
\* satisfies a tag rule
RECURSIVE findByTags(_, _, _)
findByTags(pkgs, i, inputLower) ==
  IF i > Len(pkgs) THEN None
  ELSE LET M(p) == tagRuleMatches(inputLower, p)
           j == FindIndex(pkgs[i].value.prompts, M)
       IN  IF j = 0 THEN findByTags(pkgs, i + 1, inputLower)
           ELSE Some(pkgs[i].value.prompts[j])

\* the loops of lines 697-707 over all prompts in catalog order
RECURSIVE mostUsedFrom(_, _, _, _)
mostUsedFrom(prompts, i, maxUsage, mostUsed) ==
  IF i > Len(prompts) THEN mostUsed
  ELSE IF prompts[i].usage_count > maxUsage
       THEN mostUsedFrom(prompts, i + 1, prompts[i].usage_count, Some(prompts[i]))
       ELSE mostUsedFrom(prompts, i + 1, maxUsage, mostUsed)

getBestPrompt(pkgs, args) ==
  LET inputLower == toLowerCase(args.user_input)
      byTags == findByTags(pkgs, 1, inputLower)
      bestPrompt ==
        IF IsSome(byTags) THEN byTags
        ELSE mostUsedFrom(AllPrompts(pkgs), 1, 0, None)
  IN  IF ~IsSome(bestPrompt) THEN Throw("No prompts available")
      ELSE Return(TextResult(
             [prompt |-> Val(bestPrompt),
              processed_input |-> processInput(args.user_input, None),
              original_input |-> args.user_input]))

-----------------------------------------------------------------------------
(* The tool-call request handler of index.ts *)

ToolNames ==
  {"list_prompts", "get_prompt", "search_prompts", "preprocess_input",
   "grade_prompt_execution", "get_prompt_analytics", "get_best_prompt",
   "track_prompt_usage"}

\* requestHandler without the catch: a thrown error leaves the handler
requestHandlerNoCatch(outcome) ==
  IF outcome.threw
  THEN [kind |-> "raised", error |-> outcome.message]
  ELSE [kind |-> "returned", result |-> outcome.value]

\* the try/catch of lines 218-259 around the dispatched method: what the
\* handler hands back to the protocol layer
requestHandler(outcome) ==
  IF outcome.threw
  THEN [kind |-> "returned",
        result |-> [content |-> <<[type |-> "text",
                                   text |-> "Error: " \o outcome.message]>>,
                    isError |-> TRUE]]
  ELSE [kind |-> "returned", result |-> outcome.value]

\* the response to one completed tool call, with the call it answers
\* (threw is what the dispatched method did, kept beside what the handler
\* made of it)
Respond(name, args, outcome) ==
  [name |-> name, arguments |-> args,
   threw |-> IF outcome.threw THEN Some(outcome.message) ELSE None,
   handled |-> requestHandler(outcome)]

NoResponse ==
  [name |-> "", arguments |-> <<>>, threw |-> None, handled |-> [kind |-> "none"]]

-----------------------------------------------------------------------------
(* Registries the server may be started on *)

\* two packages sharing a prompt id, every usage_count 0, one directory
\* without a metadata file
DiskBasic ==
  << PackageDir("alpha", TRUE, None,
       << PromptFile("p1", "Code Review", "Review the code", None, None,
                     Some(<<"Code">>), None, None),
          PromptFile("p2", "Support", "Help the customer", Some("2.0.0"),
                     Some("Customer care"), Some(<<"customer">>), Some(0), None),
          PromptFile("p1", "Plain", "Say it plainly", Some("2.0.0"), None,
                     None, None, None) >>),
     PackageDir("junk", FALSE, None,
       << PromptFile("p9", "Lost", "Never loaded", None, None, None,
                     Some(9), None) >>),
     PackageDir("beta-dir", TRUE, Some("beta"),
       << PromptFile("p1", "Teacher", "Explain the topic", Some("3.0.0"),
                     Some("For students"), Some(<<"Educational">>), None, None) >>) >>

\* one package of five ranked prompts, loaded from a directory whose
\* metadata name collides with an earlier package
DiskRanked ==
  << PackageDir("gamma-old", TRUE, Some("gamma"),
       << PromptFile("q0", "Old summary", "Superseded", None, None, None,
                     Some(7), None) >>),
     PackageDir("delta", TRUE, None, <<>>),
     PackageDir("gamma-new", TRUE, Some("gamma"),
       << PromptFile("q1", "Summary A", "Short text", None, None,
                     Some(<<"brief">>), Some(5), Some(Rat(1, 5))),
          PromptFile("q2", "Summary B", "Short text", None, None,
                     Some(<<"brief">>), Some(3), Some(Rat(9, 10))),
          PromptFile("q3", "Digest", "A SUMMARY of it", None, None,
                     None, Some(25), None),
          PromptFile("q4", "Notes", "Anything", None, Some("Summary notes"),
                     Some(<<"notes">>), None, Some(Num(0))),
          PromptFile("q1", "Summary C", "Short text", Some("2.0.0"), None,
                     Some(<<"brief">>), Some(25), None) >>) >>

\* two packages whose tagged prompts come in the order educational, code,
\* customer, code, the most used prompt carrying no tag
DiskTagged ==
  << PackageDir("one", TRUE, None,
       << PromptFile("t1", "Tutor", "Teach it", None, None,
                     Some(<<"Educational">>), None, None),
          PromptFile("t2", "Linter", "Check it", None, None,
                     Some(<<"review", "code">>), Some(1), None) >>),
     PackageDir("two", TRUE, None,
       << PromptFile("t3", "Desk", "Answer it", None, None,
                     Some(<<"CUSTOMER">>), None, None),
          PromptFile("t4", "Popular", "Do it", None, None, None, Some(50), None),
          PromptFile("t5", "Coder", "Write it", None, None,
                     Some(<<"Code">>), Some(9), None) >>) >>

PackageDisks == {None, Some(<<>>), Some(DiskBasic), Some(DiskRanked)}

\* one analytics file, as an earlier run of the aggregator leaves it
AnalyticsFile(prompt_id, total_uses, successful_uses, average_score) ==
  [prompt_id |-> prompt_id,
   total_uses |-> total_uses,
   successful_uses |-> successful_uses,
   failed_uses |-> total_uses - successful_uses,
   success_rate |-> Rat(successful_uses, total_uses),
   average_score |-> average_score]

AnalyticsDisks == {None, Some(<<AnalyticsFile("p1", 2, 1, Num(6))>>)}

-----------------------------------------------------------------------------------------------------------------------------------------------------
(* Arguments of the tool calls *)

PromptIdArgs == {"p1", "q1", "zz"}
VersionArgs == {None, Some(""), Some("2.0.0"), Some("9.9.9")}
PackageNameArgs == {None, Some(""), Some("alpha"), Some("gamma"), Some("nope")}
LimitArgs == {None} \cup {Some(n) : n \in 0..MaxLimit}
QueryArgs == {"summary", "CODE", "zzz"}
TagArgs == {None, Some(<<>>), Some(<<"x", "brief">>)}
TextArgs == {"Hi, can you tell me about recursion?", "fix my Code", "hello"}
TransformationArgs ==
  {None, Some(<<>>),
   Some(<<"format_standardization", "bogus", "intent_normalization">>)}
\* input texts put together from the phrases normalizeIntent and removeNoise
\* look for
TextPieces ==
  {"Hi, ", "can you ", "please ", "tell me ", "how does ", "what is ",
   "Recursion", " work"}

\* the texts made of up to n pieces
RECURSIVE Concatenations(_, _)
Concatenations(pieces, n) ==
  IF n = 0 THEN {""}
  ELSE LET shorter == Concatenations(pieces, n - 1)
       IN  shorter \cup {t \o p : t \in shorter, p \in pieces}

PieceTexts == Concatenations(TextPieces, MaxPieces)

\* names a caller may put in transformations: the three of the switch and
\* one it does not know
TransformNames ==
  {"intent_normalization", "noise_removal", "format_standardization", "bogus"}

RECURSIVE ListsUpTo(_)
ListsUpTo(n) ==
  IF n = 0 THEN {<<>>}
  ELSE LET shorter == ListsUpTo(n - 1)
       IN  shorter \cup {Append(l, t) : l \in shorter, t \in TransformNames}

TransformLists == {None} \cup {Some(l) : l \in ListsUpTo(MaxTransforms)}

\* intent normalization alone, once and twice over
IntentLists ==
  {Some(<<"intent_normalization">>),
   Some(<<"intent_normalization", "intent_normalization">>)}

GradeIdArgs == {"p1", "zz"}
GraderTypeArgs == {None, Some("rule_based"), Some("llm")}

\* (user_input, ai_response) pairs to grade
SampleHedge == [user_input |-> "What is 2+2?", ai_response |-> "I don't know."]
SampleSteps ==
  [user_input |-> "sum?",
   ai_response |-> "Here's how you can do it.\nFollow the steps below carefully.\nUse the sum function."]
GradeSamples == {SampleHedge, SampleSteps}

\* AI responses put together from what the rule-based scorers look at:
\* hedging phrases, action words, sentence and line breaks, length
ResponsePieces ==
  {"I don't know. ", "I'M NOT SURE", "Try this", ".\n", ".", "ok",
   "You can use the steps of the guide to finish this task today"}

RuleSamples ==
  [user_input : {"", "sum?", "Please explain how the registry ranks prompts"},
   ai_response : Concatenations(ResponsePieces, MaxPieces)]

\* what the backend may answer
ReplyError == BackendError("Error: connect ETIMEDOUT")
ReplyUnparseable == BackendUnparseable("SyntaxError: Unexpected token")
ReplyGood ==
  BackendJson(Some(Num(8)), Some(Num(8)), Some(Num(9)), Some(Num(7)),
              Some(Num(8)), Some("good"))
ReplyOdd ==
  BackendJson(Some(Num(11)), Some(Num(0)), None, Some(Num(-3)),
              Some(Rat(1, 2)), None)
\* no content, which line 489 reads as "{}": every field absent
ReplyEmpty == BackendJson(None, None, None, None, None, None)
BackendReplies == {ReplyError, ReplyUnparseable, ReplyGood, ReplyOdd, ReplyEmpty}

UnknownToolNames == {"delete_prompt"}

-----------------------------------------------------------------------------
(* State machine *)

\* hist records what has been asked of the server so far:
\*   loaded  - the analytics as loaded by the constructor
\*   catalog - the packages as loaded by the constructor
\*   nTrack  - track_prompt_usage calls made
\*   tracked - how many of them were made for each prompt id
\*   nGrade  - grade_prompt_execution calls made
\*   grades  - the Grades returned, in order of return
\*   replies - what the backend answered, in order of arrival
InitOn(packageDisks, analyticsDisks, clients) ==
  /\ \E disk \in packageDisks : packages = loadPackages(disk)
  /\ \E disk \in analyticsDisks : analytics = loadAnalytics(disk)
  /\ openai \in clients
  /\ pending = <<>>
  /\ response = NoResponse
  /\ hist = [loaded |-> analytics, catalog |-> packages, nTrack |-> 0,
             tracked |-> [id \in {} |-> 0], nGrade |-> 0, grades |-> <<>>,
             replies |-> <<>>]

ListPrompts(packageNames, limits) ==
  \E pn \in packageNames, l \in limits :
    LET args == [package_name |-> pn, limit |-> l] IN
    /\ response' = Respond("list_prompts", args, listPrompts(packages, args))
    /\ UNCHANGED <<packages, analytics, openai, pending, hist>>

GetPrompt(ids, versions, packageNames) ==
  \E id \in ids, v \in versions, pn \in packageNames :
    LET args == [prompt_id |-> id, version |-> v, package_name |-> pn] IN
    /\ response' = Respond("get_prompt", args, getPrompt(packages, args))
    /\ UNCHANGED <<packages, analytics, openai, pending, hist>>

SearchPrompts(queries, tagLists, limits) ==
  \E q \in queries, t \in tagLists, l \in limits :
    LET args == [query |-> q, tags |-> t, limit |-> l] IN
    /\ response' = Respond("search_prompts", args, searchPrompts(packages, args))
    /\ UNCHANGED <<packages, analytics, openai, pending, hist>>

PreprocessInput(texts, transformLists) ==
  \E txt \in texts, tr \in transformLists :
    LET args == [input_text |-> txt, transformations |-> tr] IN
    /\ response' = Respond("preprocess_input", args, preprocessInput(args))
    /\ UNCHANGED <<packages, analytics, openai, pending, hist>>

GetPromptAnalytics(ids) ==
  \E id \in ids :
    LET args == [prompt_id |-> id] IN
    /\ response' = Respond("get_prompt_analytics", args,
                           getPromptAnalytics(analytics, args))
    /\ UNCHANGED <<packages, analytics, openai, pending, hist>>

GetBestPrompt(texts) ==
  \E txt \in texts :
    LET args == [user_input |-> txt] IN
    /\ response' = Respond("get_best_prompt", args, getBestPrompt(packages, args))
    /\ UNCHANGED <<packages, analytics, openai, pending, hist>>

TrackPromptUsage(ids, budget) ==
  \E id \in ids :
    LET args == [prompt_id |-> id]
        t == trackPromptUsage(packages, args)
    IN  /\ budget
        /\ packages' = t.packages
        /\ response' = Respond("track_prompt_usage", args, t.outcome)
        /\ hist' = [hist EXCEPT
                      !.nTrack = @ + 1,
                      !.tracked = [x \in DOMAIN @ \cup {id} |->
                                     IF x = id
                                     THEN (IF id \in DOMAIN @ THEN @[id] ELSE 0) + 1
                                     ELSE @[x]]]
        /\ UNCHANGED <<analytics, openai, pending>>

GradeRecord(grade) ==
  [prompt_id |-> grade.prompt_id, overall_score |-> grade.overall_score,
   is_successful |-> grade.is_successful]

\* gradePromptExecution up to its return or, with the model-delegated grader,
\* up to the awaited backend call
GradePromptExecution(ids, samples, graderTypes, budget) ==
  \E id \in ids, sample \in samples, gt \in graderTypes :
    LET args == [prompt_id |-> id, user_input |-> sample.user_input,
                 ai_response |-> sample.ai_response, grader_type |-> gt]
    IN  /\ budget
        /\ IF usesLLM(args, openai)
           THEN /\ Len(pending) < MaxInFlight
                /\ pending' = Append(pending, args)
                /\ hist' = [hist EXCEPT !.nGrade = @ + 1]
                /\ UNCHANGED <<packages, analytics, openai, response>>
           ELSE LET grade == gradeWithRules(id, sample.user_input,
                                            sample.ai_response)
                    fin == finishGrade(analytics, grade)
                IN  /\ analytics' = fin.analytics
                    /\ response' = Respond("grade_prompt_execution", args,
                                           fin.outcome)
                    /\ hist' = [hist EXCEPT !.nGrade = @ + 1,
                                            !.grades = Append(@, GradeRecord(grade))]
                    /\ UNCHANGED <<packages, openai, pending>>

RemoveAt(seq, i) == SubSeq(seq, 1, i - 1) \o SubSeq(seq, i + 1, Len(seq))

\* the backend call of one in-flight gradePromptExecution settles and the
\* call runs to its end
BackendSettles(replies) ==
  \E i \in 1..Len(pending), reply \in replies :
    LET args == pending[i]
        out == gradeWithLLM(args.prompt_id, args.user_input,
                            args.ai_response, reply)
    IN  /\ pending' = RemoveAt(pending, i)
        /\ IF out.threw
           THEN /\ response' = Respond("grade_prompt_execution", args, out)
                /\ hist' = [hist EXCEPT !.replies = Append(@, reply)]
                /\ UNCHANGED <<packages, analytics, openai>>
           ELSE LET fin == finishGrade(analytics, out.value) IN
                /\ analytics' = fin.analytics
                /\ response' = Respond("grade_prompt_execution", args,
                                       fin.outcome)
                /\ hist' = [hist EXCEPT !.grades = Append(@, GradeRecord(out.value)),
                                        !.replies = Append(@, reply)]
                /\ UNCHANGED <<packages, openai>>

\* the default branch of the switch
UnknownTool(names) ==
  \E name \in names :
    /\ response' = Respond(name, <<>>, Throw("Unknown tool: " \o name))
    /\ UNCHANGED <<packages, analytics, openai, pending, hist>>

-----------------------------------------------------------------------------
(* Spec: the whole server, every tool, on a few arguments each *)

UpdatesLeft == hist.nTrack + hist.nGrade < MaxUpdates

Init == InitOn(PackageDisks, AnalyticsDisks, BOOLEAN)

Next ==
  \/ ListPrompts({None, Some("nope")}, {Some(1)})
  \/ GetPrompt({"p1", "zz"}, {None, Some("9.9.9")}, {None})
  \/ SearchPrompts({"summary", "zzz"}, {None}, {Some(1)})
  \/ PreprocessInput({"hello"}, {None})
  \/ GradePromptExecution({"p1"}, GradeSamples, {None, Some("llm")}, UpdatesLeft)
  \/ BackendSettles({ReplyError, ReplyGood})
  \/ GetPromptAnalytics({"p1"})
  \/ GetBestPrompt({"hello"})
  \/ TrackPromptUsage({"p1", "zz"}, UpdatesLeft)
  \/ UnknownTool(UnknownToolNames)

Spec == Init /\ [][Next]_vars

-----------------------------------------------------------------------------
(* SpecCatalog: the catalog operations on every argument *)

InitCatalog == InitOn(PackageDisks, {None}, {FALSE})

NextCatalog ==
  \/ ListPrompts(PackageNameArgs, LimitArgs)
  \/ GetPrompt(PromptIdArgs, VersionArgs, PackageNameArgs)
  \/ SearchPrompts(QueryArgs, TagArgs, LimitArgs)
  \/ GetBestPrompt(TextArgs)
  \/ TrackPromptUsage({"p1", "q1"}, hist.nTrack < MaxTrackCalls)

SpecCatalog == InitCatalog /\ [][NextCatalog]_vars

-----------------------------------------------------------------------------
(* SpecGrading: grading and analytics on every argument, between          *)
(* track_prompt_usage calls                                              *)

InitGrading == InitOn({Some(DiskBasic)}, AnalyticsDisks, BOOLEAN)

NextGrading ==
  \/ GradePromptExecution(GradeIdArgs, GradeSamples, GraderTypeArgs,
                          hist.nGrade < MaxGradeCalls)
  \/ BackendSettles(BackendReplies)
  \/ GetPromptAnalytics(PromptIdArgs)
  \/ TrackPromptUsage({"p1"}, hist.nTrack < MaxTrackCalls)

SpecGrading == InitGrading /\ [][NextGrading]_vars

-----------------------------------------------------------------------------
(* SpecText: the text normalizer.  preprocessInput reads and writes no      *)
(* field of the server, so one call per run covers it.                      *)

InitText == InitOn({Some(DiskBasic)}, {None}, {FALSE})

NextText ==
  \/ response = NoResponse /\ PreprocessInput(TextArgs, TransformLists)
  \/ response = NoResponse /\ PreprocessInput(PieceTexts, IntentLists)

SpecText == InitText /\ [][NextText]_vars

-----------------------------------------------------------------------------
(* SpecRules: the rule-based grader, one grading call per run *)

NextRules ==
  GradePromptExecution({"p1"}, RuleSamples, {None, Some("rule_based")},
                       hist.nGrade = 0)

SpecRules == InitText /\ [][NextRules]_vars

-----------------------------------------------------------------------------
(* SpecSelect: get_best_prompt on catalogs with tagged prompts, between     *)
(* track_prompt_usage calls that change the usage counts                    *)

InitSelect == InitOn({Some(DiskTagged), Some(DiskBasic)}, {None}, {FALSE})

NextSelect ==
  \/ GetBestPrompt({"Explain this CODE", "customer code", "my Customer",
                    "explain", "decode", "hello"})
  \/ TrackPromptUsage({"t1", "t5", "p1", "zz"}, hist.nTrack < MaxTrackCalls)

SpecSelect == InitSelect /\ [][NextSelect]_vars

-----------------------------------------------------------------------------
(* Reading a response *)

Returned == response.handled.kind = "returned"
\* the result carries the error flag
Flagged == Returned /\ "isError" \in DOMAIN response.handled.result
                    /\ response.handled.result.isError
\* the text of an error result / the payload of a success result
ErrorText == response.handled.result.content[1].text
Payload == response.handled.result.content[1].json
Answered(name) == response.name = name /\ Returned

RangeOf(seq) == {seq[i] : i \in 1..Len(seq)}

-----------------------------------------------------------------------------
(* C1: analytics after N grades for one prompt id *)

GradesFor(id) ==
  LET ForId(g) == g.prompt_id = id IN SelectSeq(hist.grades, ForId)

Successes(grades) ==
  LET Ok(g) == g.is_successful IN Len(SelectSeq(grades, Ok))

RECURSIVE SumScores(_, _)
SumScores(grades, i) ==
  IF i > Len(grades) THEN Num(0)
  ELSE RAdd(grades[i].overall_score, SumScores(grades, i + 1))

\* the record loaded at startup for id, all zero when there is none
LoadedFor(id) ==
  IF MapHas(hist.loaded, id) THEN MapGet(hist.loaded, id)
  ELSE [prompt_id |-> id, total_uses |-> 0, successful_uses |-> 0,
        failed_uses |-> 0, success_rate |-> Num(0), average_score |-> Num(0)]

\* C1 as stated: after N >= 1 grades for an id its analytics record has
\* total_uses = N, successful_uses + failed_uses = N, success_rate =
\* successful_uses / N and average_score = the mean of the N overall scores.
C1_CountsFromZero ==
  \A id \in GradeIdArgs :
    LET g == GradesFor(id)
        N == Len(g)
    IN  N >= 1 =>
          /\ MapHas(analytics, id)
          /\ LET a == MapGet(analytics, id) IN
             /\ a.total_uses = N
             /\ a.successful_uses + a.failed_uses = N
             /\ a.success_rate = Rat(a.successful_uses, N)
             /\ RMul(a.average_score, Num(N)) = SumScores(g, 1)

\* C1 amended: the counts continue from the record loaded at startup.  After
\* N >= 1 grades for an id, total_uses, successful_uses and failed_uses have
\* grown by N, by the successful and by the unsuccessful grades, success_rate
\* = successful_uses / total_uses, and average_score is the mean of the
\* loaded scores and the N new ones.
C1_CountsFromLoaded ==
  \A id \in GradeIdArgs :
    LET g == GradesFor(id)
        N == Len(g)
        L == LoadedFor(id)
    IN  N >= 1 =>
          /\ MapHas(analytics, id)
          /\ LET a == MapGet(analytics, id) IN
             /\ a.total_uses = L.total_uses + N
             /\ a.successful_uses = L.successful_uses + Successes(g)
             /\ a.failed_uses = L.failed_uses + (N - Successes(g))
             /\ a.success_rate = Rat(a.successful_uses, a.total_uses)
             /\ RMul(a.average_score, Num(a.total_uses)) =
                  RAdd(RMul(L.average_score, Num(L.total_uses)), SumScores(g, 1))

\* two grades, one successful and one not, on top of a loaded record
C1_Witness ==
  /\ MapHas(hist.loaded, "p1")
  /\ Len(GradesFor("p1")) = 2
  /\ Successes(GradesFor("p1")) = 1
  /\ MapGet(analytics, "p1").total_uses = 4

-----------------------------------------------------------------------------
(* C2: every returned Grade is in range *)

InScoreRange(x) == RLe(Num(1), x) /\ RLe(x, Num(10))

\* C2: every Grade returned by grade_prompt_execution has its four sub-scores
\* and overall_score in [1,10], and is_successful exactly when overall_score
\* >= 7.0.
C2_GradesInRange ==
  (Answered("grade_prompt_execution") /\ ~Flagged) =>
     /\ InScoreRange(Payload.accuracy)
     /\ InScoreRange(Payload.helpfulness)
     /\ InScoreRange(Payload.completeness)
     /\ InScoreRange(Payload.clarity)
     /\ InScoreRange(Payload.overall_score)
     /\ Payload.is_successful <=> RGe(Payload.overall_score, Num(7))

-----------------------------------------------------------------------------
(* C3: llm grading without a backend *)

\* C3: a grade_prompt_execution call with grader_type "llm" and no backend
\* configured fails with a grading error, returns no Grade and leaves the
\* analytics as they were.
C3_LlmWithoutBackendFails ==
  [][ (/\ hist'.nGrade # hist.nGrade
       /\ ~openai
       /\ response'.arguments.grader_type = Some("llm"))
      => (/\ IsSome(response'.threw)
          /\ "isError" \in DOMAIN response'.handled.result
          /\ analytics' = analytics) ]_vars

-----------------------------------------------------------------------------
(* C4: the usage-count fallback of get_best_prompt *)

NoTagRule(text) ==
  \A k \in 1..Len(AllPrompts(packages)) :
    ~tagRuleMatches(toLowerCase(text), AllPrompts(packages)[k])

\* C4: get_best_prompt fails with "No prompts available" only when the catalog
\* is empty; when the catalog has a prompt and no tag rule matches the input,
\* it returns the first prompt in catalog order whose usage_count is the
\* maximum over the catalog, also when every usage_count is 0.
C4_FallbackReturnsMostUsed ==
  Answered("get_best_prompt") =>
    LET all == AllPrompts(packages)
        IsMax(k) == \A m \in 1..Len(all) : all[m].usage_count <= all[k].usage_count
    IN  /\ Flagged => all = <<>>
        /\ (all # <<>> /\ NoTagRule(response.arguments.user_input)) =>
             /\ ~Flagged
             /\ \E k \in 1..Len(all) :
                  /\ IsMax(k)
                  /\ \A m \in 1..(k - 1) : ~IsMax(m)
                  /\ Payload.prompt = all[k]

-----------------------------------------------------------------------------
(* C5: the effect of track_prompt_usage *)

FirstWithId(all, id) ==
  IF \E k \in 1..Len(all) : all[k].id = id
  THEN CHOOSE k \in 1..Len(all) :
         all[k].id = id /\ \A m \in 1..(k - 1) : all[m].id # id
  ELSE 0

SameShape(p, q) ==
  /\ Len(p) = Len(q)
  /\ \A i \in 1..Len(p) :
       /\ p[i].key = q[i].key
       /\ p[i].value.name = q[i].value.name
       /\ Len(p[i].value.prompts) = Len(q[i].value.prompts)

\* C5: track_prompt_usage(id) adds exactly 1 to the usage_count of the first
\* prompt in catalog order with that id and changes no other prompt and no
\* analytics record; with no such prompt it changes nothing; either way it
\* returns the success confirmation.
C5_TrackIncrementsFirstMatch ==
  [][ hist'.nTrack # hist.nTrack =>
        LET id == response'.arguments.prompt_id
            all == AllPrompts(packages)
            k == FirstWithId(all, id)
        IN  /\ response'.name = "track_prompt_usage"
            /\ response'.threw = None
            /\ response'.handled =
                 [kind |-> "returned",
                  result |-> TextResult([message |-> "Usage tracked successfully",
                                         prompt_id |-> id,
                                         usage_count |-> "incremented"])]
            /\ analytics' = analytics
            /\ SameShape(packages, packages')
            /\ AllPrompts(packages') =
                 IF k = 0 THEN all
                 ELSE [all EXCEPT ![k].usage_count = @ + 1] ]_vars

\* p1 tracked twice where three prompts carry that id: only the first counts
C5_Witness ==
  /\ response.name = "track_prompt_usage"
  /\ response.arguments.prompt_id = "p1"
  /\ hist.nTrack = 2
  /\ Len(AllPrompts(packages)) = 4
  /\ AllPrompts(packages)[1].usage_count = 2
  /\ AllPrompts(packages)[3].usage_count = 0
  /\ AllPrompts(packages)[4].usage_count = 0

-----------------------------------------------------------------------------
(* C6: usage_count over all eight operations *)

\* the catalog with every usage_count blanked: membership and order only
StripUsage(pkgs) ==
  [i \in 1..Len(pkgs) |->
     [key |-> pkgs[i].key,
      name |-> pkgs[i].value.name,
      prompts |-> [j \in 1..Len(pkgs[i].value.prompts) |->
                     [pkgs[i].value.prompts[j] EXCEPT !.usage_count = 0]]]]

\* C6: every usage_count is >= 0 and never decreases; the catalog changes
\* only in a track_prompt_usage step, and then only in usage counts: the
\* other seven operations leave every usage_count and the membership and
\* order of every package's prompts unchanged.
C6_UsageCountMonotone ==
  /\ [](\A k \in 1..Len(AllPrompts(packages)) :
          AllPrompts(packages)[k].usage_count >= 0)
  /\ [][ /\ StripUsage(packages') = StripUsage(packages)
         /\ \A k \in 1..Len(AllPrompts(packages)) :
              AllPrompts(packages')[k].usage_count >=
                AllPrompts(packages)[k].usage_count
         /\ packages' # packages =>
              /\ hist'.nTrack = hist.nTrack + 1
              /\ response'.name = "track_prompt_usage" ]_vars

\* a counted use is still there after a later call of another tool
C6_Witness ==
  /\ hist.nTrack = 1
  /\ response.name = "get_best_prompt"
  /\ \E k \in 1..Len(AllPrompts(packages)) :
       AllPrompts(packages)[k].id = "p1" /\ AllPrompts(packages)[k].usage_count = 1

-----------------------------------------------------------------------------
(* C7: search ranking *)

LimitOf(args) == IF IsSome(args.limit) THEN Val(args.limit) ELSE DefaultLimit

\* usage_count + success_rate * 100, a missing success_rate counted as 0
Score(p) ==
  IF IsSome(p.success_rate)
  THEN RAdd(Num(p.usage_count), RMul(Val(p.success_rate), Num(100)))
  ELSE Num(p.usage_count)

\* C7: search_prompts returns the matching prompts by descending score,
\* equal scores in catalog encounter order; results is the first limit
\* entries of that order, returned is its length, total counts the matches.
C7_SearchRanking ==
  Answered("search_prompts") =>
    LET a == response.arguments
        all == AllPrompts(packages)
        M == {k \in 1..Len(all) :
                matchesQuery(all[k], a.query) /\ matchesTags(all[k], a.tags)}
        Before(j, k) ==
          \/ RGt(Score(all[j]), Score(all[k]))
          \/ Score(all[j]) = Score(all[k]) /\ j < k
        rank(k) == 1 + Cardinality({j \in M : Before(j, k)})
        n == Min(LimitOf(a), Cardinality(M))
    IN  /\ ~Flagged
        /\ Payload.total = Cardinality(M)
        /\ Payload.returned = Len(Payload.results)
        /\ Len(Payload.results) = n
        /\ \A k \in M : rank(k) <= n => Payload.results[rank(k)] = all[k]

\* five matches, three of them tied at score 25, cut to the first three
C7_Witness ==
  /\ Answered("search_prompts")
  /\ response.arguments = [query |-> "summary", tags |-> None, limit |-> Some(3)]
  /\ Payload.total = 5
  /\ Payload.returned = 3
  /\ [i \in 1..3 |-> Payload.results[i].name] = <<"Summary B", "Summary A", "Digest">>

-----------------------------------------------------------------------------
(* C8: list_prompts *)

\* the prompts of the package called name, <<>> when there is none
PromptsOfPackage(name) ==
  IF \E i \in 1..Len(packages) : packages[i].key = name
  THEN packages[CHOOSE i \in 1..Len(packages) : packages[i].key = name].value.prompts
  ELSE <<>>

\* the prompts a call scans: the named package's, or all in catalog order
\* (an empty package_name counts as none given)
ScanOrder(package_name) ==
  IF TruthyStr(package_name) THEN PromptsOfPackage(Val(package_name))
  ELSE AllPrompts(packages)

\* C8: list_prompts returns the first limit prompts of the named package, or
\* of all packages in catalog order; returned = min(limit, total), total is
\* the count before truncation; an unknown package gives an empty list and
\* total 0, not an error.
C8_ListTruncates ==
  Answered("list_prompts") =>
    LET a == response.arguments
        base == ScanOrder(a.package_name)
    IN  /\ ~Flagged
        /\ Payload.total = Len(base)
        /\ Payload.returned = Min(LimitOf(a), Len(base))
        /\ Len(Payload.prompts) = Payload.returned
        /\ \A k \in 1..Len(Payload.prompts) : Payload.prompts[k] = base[k]
        /\ (/\ TruthyStr(a.package_name)
            /\ \A i \in 1..Len(packages) : packages[i].key # Val(a.package_name))
           => Payload.prompts = <<>> /\ Payload.total = 0

\* limit 2 on a package of five prompts
C8_Witness ==
  /\ Answered("list_prompts")
  /\ response.arguments = [package_name |-> Some("gamma"), limit |-> Some(2)]
  /\ Payload.returned = 2
  /\ Payload.total = 5
  /\ [i \in 1..2 |-> Payload.prompts[i].name] = <<"Summary A", "Summary B">>

-----------------------------------------------------------------------------
(* C9: get_prompt *)

-----------------------------------------------------------------------------
(* C10: failures come back as flagged results *)

\* C10: every failure of a dispatched call (a prompt or analytics record not
\* found, no prompts available, a grading failure, an unknown tool) is
\* returned as a result with the text "Error: <message>" and the error flag,
\* never raised out of the handler; every success is returned without flag.
C10_FailuresAreFlaggedResults ==
  response # NoResponse =>
    /\ Returned
    /\ IsSome(response.threw) =>
         Flagged /\ ErrorText = "Error: " \o Val(response.threw)
    /\ ~IsSome(response.threw) =>
         "isError" \notin DOMAIN response.handled.result
    /\ (/\ response.name = "get_prompt"
        /\ \A k \in 1..Len(AllPrompts(packages)) :
             AllPrompts(packages)[k].id # response.arguments.prompt_id)
       => Flagged
    /\ (/\ response.name = "get_prompt_analytics"
        /\ ~MapHas(analytics, response.arguments.prompt_id))
       => Flagged
    /\ (response.name = "get_best_prompt" /\ AllPrompts(packages) = <<>>)
       => Flagged
    /\ response.name \notin ToolNames =>
         Flagged /\ ErrorText = "Error: Unknown tool: " \o response.name

\* a backend failure reported as a flagged result
C10_Witness ==
  /\ Answered("grade_prompt_execution")
  /\ Flagged
  /\ ErrorText = "Error: LLM grading failed: Error: connect ETIMEDOUT"

-----------------------------------------------------------------------------
(* C11: preprocess_input *)

\* the transformations a call asks for: its list, or the default pair when
\* the argument is absent
Requested(args) ==
  IF IsSome(args.transformations) THEN Val(args.transformations)
  ELSE <<"intent_normalization", "noise_removal">>

Recognized(name) ==
  name \in {"intent_normalization", "noise_removal", "format_standardization"}

\* text after the first n requested transformations, unknown names skipped
RECURSIVE Threaded(_, _, _)
Threaded(text, names, n) ==
  IF n = 0 THEN text
  ELSE LET before == Threaded(text, names, n - 1)
       IN  CASE names[n] = "intent_normalization" -> normalizeIntent(before)
             [] names[n] = "noise_removal" -> removeNoise(before)
             [] names[n] = "format_standardization" -> standardizeFormat(before)
             [] OTHER -> before

\* C11: preprocess_input threads the text through the requested
\* transformations in request order; transformations_applied is the requested
\* list restricted to the three recognized names, repeats kept, unknown names
\* skipped without error; with no transformations argument the list is
\* [intent_normalization, noise_removal]; the confidence is computed between
\* the original and the final text and is 1 when they are identical.
C11_PreprocessThreads ==
  Answered("preprocess_input") =>
    LET a == response.arguments
        req == Requested(a)
    IN  /\ ~Flagged
        /\ Payload.original_input = a.input_text
        /\ Payload.transformations_applied = SelectSeq(req, Recognized)
        /\ Payload.processed_input = Threaded(a.input_text, req, Len(req))
        /\ Payload.confidence =
             calculateConfidence(a.input_text, Payload.processed_input)
        /\ Payload.processed_input = a.input_text => Payload.confidence = Num(1)
        /\ ~IsSome(a.transformations) =>
             Payload.transformations_applied =
               <<"intent_normalization", "noise_removal">>

\* an unknown name skipped before a recognized one that changes the text
C11_Witness ==
  /\ Answered("preprocess_input")
  /\ response.arguments.input_text = "Hi, can you tell me about recursion?"
  /\ response.arguments.transformations = Some(<<"bogus", "intent_normalization">>)
  /\ Payload.transformations_applied = <<"intent_normalization">>
  /\ Payload.processed_input = "explain about recursion?"
  /\ Payload.confidence = Rat(7, 10)

-----------------------------------------------------------------------------
(* C12, C13: normalizeIntent *)

\* the positions where phrase occurs in s
Occurrences(s, phrase) ==
  {i \in 1..(Len(s) - Len(phrase) + 1) : SubSeq(s, i, i + Len(phrase) - 1) = phrase}

Least(S) == CHOOSE i \in S : \A j \in S : i <= j
Greatest(S) == CHOOSE i \in S : \A j \in S : i >= j

\* the seven rewrites in their order: phrase, replacement
Rewrites ==
  << <<"can you ", "">>, <<"could you ", "">>, <<"would you ", "">>,
     <<"please ", "">>, <<"tell me ", "explain ">>, <<"how does ", "explain ">>,
     <<"what is ", "define ">> >>

\* the ends j of a match of "how does (.*) work" that starts at i: " work"
\* begins at j, on the line of i
HowDoesEnds(s, i) ==
  {j \in Occurrences(s, " work") :
     /\ j >= i + 9
     /\ \A m \in (i + 9)..(j - 1) : SubSeq(s, m, m) \notin {"\n", "\r"}}

\* where rewrite k matches s first, 0 when it does not match
MatchStart(s, k) ==
  LET occ == IF k = 6
             THEN {i \in Occurrences(s, "how does ") : HowDoesEnds(s, i) # {}}
             ELSE Occurrences(s, Rewrites[k][1])
  IN  IF occ = {} THEN 0 ELSE Least(occ)

\* s with rewrite k applied at its first match
Rewritten(s, k) ==
  LET i == MatchStart(s, k)
      n == Len(Rewrites[k][1])
  IN  IF i = 0 THEN s
      ELSE IF k = 6
      THEN LET j == Greatest(HowDoesEnds(s, i))
           IN  SubSeq(s, 1, i - 1) \o "explain " \o SubSeq(s, i + 9, j - 1)
                 \o SubSeq(s, j + 5, Len(s))
      ELSE SubSeq(s, 1, i - 1) \o Rewrites[k][2] \o SubSeq(s, i + n, Len(s))

\* s after rewrites 1..k, each applied to what the ones before it left
RECURSIVE RewrittenUpTo(_, _)
RewrittenUpTo(s, k) ==
  IF k = 0 THEN s ELSE Rewritten(RewrittenUpTo(s, k - 1), k)

\* the text the rewrites start from: lowercased, trimmed, greeting stripped
Prepared(text) == stripGreeting(trim(toLowerCase(text)))

StartsWithGreeting(s) ==
  \E g \in {"hi", "hello", "hey"} : Len(s) >= Len(g) /\ SubSeq(s, 1, Len(g)) = g

\* s holds none of the greeting and request-softening words, anywhere
NoGreetingOrSoftening(s) ==
  \A w \in {"hi", "hello", "hey", "can you", "could you", "would you", "please"} :
    Occurrences(s, w) = {}

\* no pattern of normalizeIntent matches s
NoPatternMatches(s) ==
  /\ ~StartsWithGreeting(s)
  /\ \A k \in 1..7 : MatchStart(s, k) = 0

AnsweredIntent(transformations) ==
  /\ Answered("preprocess_input")
  /\ response.arguments.transformations = Some(transformations)

\* C12 as stated: when the first-pass result holds no greeting or
\* request-softening pattern (hi/hello/hey, can you, could you, would you,
\* please), normalizeIntent applied twice equals normalizeIntent applied once.
C12_IdempotentWithoutSoftening ==
  AnsweredIntent(<<"intent_normalization", "intent_normalization">>) =>
    LET once == normalizeIntent(response.arguments.input_text)
    IN  NoGreetingOrSoftening(once) => Payload.processed_input = once

\* C12 amended: normalizeIntent applied twice equals normalizeIntent applied
\* once when no pattern of normalizeIntent matches the first-pass result: it
\* does not begin with hi/hello/hey and holds none of can you, could you,
\* would you, please, tell me, what is (each followed by a space) nor how
\* does ... work.
C12_IdempotentWithoutPatterns ==
  AnsweredIntent(<<"intent_normalization", "intent_normalization">>) =>
    LET once == normalizeIntent(response.arguments.input_text)
    IN  NoPatternMatches(once) => Payload.processed_input = once

\* a first pass that strips a greeting and a softening phrase, and a second
\* pass that finds nothing to do
C12_Witness ==
  /\ AnsweredIntent(<<"intent_normalization", "intent_normalization">>)
  /\ response.arguments.input_text = "Hi, can you Recursion"
  /\ NoPatternMatches(normalizeIntent(response.arguments.input_text))
  /\ Payload.processed_input = "recursion"

\* C13 as stated: after lowercasing, trimming and stripping a leading
\* greeting, the seven rewrites are tried in their fixed order and the first
\* one that matches is the only one applied.
C13_FirstMatchWins ==
  AnsweredIntent(<<"intent_normalization">>) =>
    LET p == Prepared(response.arguments.input_text)
        matching == {k \in 1..7 : MatchStart(p, k) # 0}
    IN  Payload.processed_input =
          trim(IF matching = {} THEN p ELSE Rewritten(p, Least(matching)))

\* C13 amended: after lowercasing, trimming and stripping a leading greeting,
\* each of the seven rewrites is tried in the fixed order against the text the
\* earlier ones left, and every one that matches is applied at its first
\* match; several rewrites may be applied in one call.
C13_EveryMatchApplied ==
  AnsweredIntent(<<"intent_normalization">>) =>
    Payload.processed_input =
      trim(RewrittenUpTo(Prepared(response.arguments.input_text), 7))

\* the softening phrase stripped and tell me rewritten in the same call
C13_Witness ==
  /\ AnsweredIntent(<<"intent_normalization">>)
  /\ response.arguments.input_text = "Hi, can you tell me about recursion?"
  /\ Payload.processed_input = "explain about recursion?"

-----------------------------------------------------------------------------
(* C17: the rule-based grader's ranges *)

\* the response holds one of the four hedging phrases, in any letter case
Hedges(ai_response) ==
  \E h \in {"i don't know", "i can't", "i'm not sure", "i don't have access"} :
    Occurrences(toLowerCase(ai_response), h) # {}

\* C17: the rule-based grader's accuracy is one of 3, 4, 5, 6, its
\* helpfulness and completeness one of 5, 6, 7, 8, its clarity one of 5, 6, 7
\* (the clamp to [1,10] alters none of them), so overall_score lies in
\* [4.5, 7.25]; a response holding a hedging phrase has accuracy <= 4 and is
\* never graded successful.
C17_RuleScoreRanges ==
  (Answered("grade_prompt_execution") /\ ~Flagged
     /\ Payload.grader_type = "rule_based") =>
    /\ Payload.accuracy \in {Num(n) : n \in 3..6}
    /\ Payload.helpfulness \in {Num(n) : n \in 5..8}
    /\ Payload.completeness \in {Num(n) : n \in 5..8}
    /\ Payload.clarity \in {Num(n) : n \in 5..7}
    /\ RLe(Rat(9, 2), Payload.overall_score)
    /\ RLe(Payload.overall_score, Rat(29, 4))
    /\ Hedges(Payload.ai_response) =>
         /\ RLe(Payload.accuracy, Num(4))
         /\ ~Payload.is_successful

\* a long hedging answer with action words and a line break: high marks
\* from the other three scorers, and still not successful
C17_Witness ==
  /\ Answered("grade_prompt_execution")
  /\ Payload.grader_type = "rule_based"
  /\ Hedges(Payload.ai_response)
  /\ Payload.accuracy = Num(4)
  /\ Payload.helpfulness = Num(8)
  /\ Payload.completeness = Num(7)
  /\ Payload.clarity = Num(7)
  /\ Payload.overall_score = Rat(13, 2)
  /\ ~Payload.is_successful

-----------------------------------------------------------------------------
(* C14: the tag rules of get_best_prompt *)

\* the three rules: what the input must contain, the tag the prompt must carry
TagRules ==
  {<<"code", "code">>, <<"customer", "customer">>, <<"explain", "educational">>}

\* prompt p satisfies some tag rule for the input, letter case set aside
SatisfiesTagRule(p, user_input) ==
  \E rule \in TagRules :
    /\ Occurrences(toLowerCase(user_input), rule[1]) # {}
    /\ \E t \in 1..Len(p.tags) : toLowerCase(p.tags[t]) = rule[2]

\* C14: when some prompt satisfies a tag rule for the input, get_best_prompt
\* returns the first prompt in catalog order that satisfies any of the three
\* rules, whatever the usage counts and whatever rule a later prompt
\* satisfies; the most-used prompt is returned only when none satisfies one.
C14_FirstTaggedInCatalogOrder ==
  Answered("get_best_prompt") =>
    LET all == AllPrompts(packages)
        input == response.arguments.user_input
        sat == {k \in 1..Len(all) : SatisfiesTagRule(all[k], input)}
    IN  sat # {} => /\ ~Flagged
                    /\ Payload.prompt = all[Least(sat)]

\* the input matches the code rule and the explain rule: the educational
\* prompt comes first in the catalog and is returned, though a later prompt
\* is tagged code and another is used far more
C14_Witness ==
  /\ Answered("get_best_prompt")
  /\ response.arguments.user_input = "Explain this CODE"
  /\ Payload.prompt.id = "t1"
  /\ Payload.prompt.usage_count = 1
  /\ \E k \in 1..Len(AllPrompts(packages)) :
       /\ AllPrompts(packages)[k].id = "t2"
       /\ SatisfiesTagRule(AllPrompts(packages)[k], "Explain this CODE")

-----------------------------------------------------------------------------
(* C15: a failing backend *)

\* the backend call failed or its content did not parse
BackendFailed(reply) == reply.kind \in {"error", "unparseable"}

\* C15: when the backend call of an llm grading errors or returns
\* unparseable content, grade_prompt_execution fails with an error carrying
\* the cause; no second backend call is made, no rule-based grade is produced
\* and every analytics record stays as it was.
C15_BackendFailureSurfaces ==
  [][ (/\ Len(hist'.replies) = Len(hist.replies) + 1
       /\ BackendFailed(hist'.replies[Len(hist'.replies)])) =>
      LET reply == hist'.replies[Len(hist'.replies)] IN
        /\ response'.name = "grade_prompt_execution"
        /\ response'.arguments.grader_type = Some("llm")
        /\ response'.handled.kind = "returned"
        /\ "isError" \in DOMAIN response'.handled.result
        /\ response'.handled.result.isError
        /\ response'.handled.result.content[1].text =
             "Error: LLM grading failed: " \o reply.cause
        /\ analytics' = analytics
        /\ hist'.grades = hist.grades
        /\ Len(pending') = Len(pending) - 1
        /\ hist'.nGrade = hist.nGrade ]_vars

\* unparseable content for a prompt that has a loaded analytics record
C15_Witness ==
  /\ hist.replies = <<ReplyUnparseable>>
  /\ Answered("grade_prompt_execution")
  /\ response.arguments.prompt_id = "p1"
  /\ Flagged
  /\ ErrorText = "Error: LLM grading failed: SyntaxError: Unexpected token"
  /\ MapHas(analytics, "p1")
  /\ analytics = hist.loaded

-----------------------------------------------------------------------------
(* C16: gradings in flight together with tracking calls *)

\* the analytics record of id, all zero when there is none
RecordOf(an, id) ==
  IF MapHas(an, id) THEN MapGet(an, id)
  ELSE [prompt_id |-> id, total_uses |-> 0, successful_uses |-> 0,
        failed_uses |-> 0, success_rate |-> Num(0), average_score |-> Num(0)]

\* track_prompt_usage calls that matched the k-th prompt of the catalog: the
\* calls for its id, when it is the first prompt with that id
TrackedAt(k) ==
  LET all == AllPrompts(hist.catalog)
      id == all[k].id
  IN  IF id \in DOMAIN hist.tracked /\ \A m \in 1..(k - 1) : all[m].id # id
      THEN hist.tracked[id] ELSE 0

\* every usage_count has grown by the tracking calls that matched the prompt
UsageCountsAddUp ==
  /\ Len(AllPrompts(packages)) = Len(AllPrompts(hist.catalog))
  /\ \A k \in 1..Len(AllPrompts(packages)) :
       AllPrompts(packages)[k].usage_count =
         AllPrompts(hist.catalog)[k].usage_count + TrackedAt(k)

\* C16 as stated: once every call has completed, each prompt id's total_uses
\* equals the number of grading calls for it that returned a Grade,
\* successful_uses + failed_uses = total_uses, and each usage_count has grown
\* by the number of tracking calls that matched the prompt.
C16_NoLostUpdateFromZero ==
  (pending = <<>> /\ Len(hist.replies) >= 2) =>
    /\ \A id \in GradeIdArgs :
         LET a == RecordOf(analytics, id) IN
         Len(GradesFor(id)) >= 1 =>
           /\ a.total_uses = Len(GradesFor(id))
           /\ a.successful_uses + a.failed_uses = a.total_uses
    /\ UsageCountsAddUp

\* C16 amended: once every call has completed, each prompt id's total_uses
\* has grown, from the record loaded at startup, by the number of grading
\* calls for it that returned a Grade, successful_uses and failed_uses by the
\* successful and the unsuccessful ones among them, and each usage_count by
\* the number of tracking calls that matched the prompt.
C16_NoLostUpdate ==
  pending = <<>> =>
    /\ \A id \in GradeIdArgs :
         LET a == RecordOf(analytics, id)
             L == LoadedFor(id)
             g == GradesFor(id)
         IN  /\ a.total_uses = L.total_uses + Len(g)
             /\ a.successful_uses = L.successful_uses + Successes(g)
             /\ a.failed_uses = L.failed_uses + (Len(g) - Successes(g))
             /\ a.successful_uses + a.failed_uses = a.total_uses
    /\ UsageCountsAddUp

\* two gradings answered by the backend and a tracking call, all for the
\* same prompt, all completed
C16_Witness ==
  /\ pending = <<>>
  /\ Len(hist.replies) = 2
  /\ Len(GradesFor("p1")) = 2
  /\ "p1" \in DOMAIN hist.tracked
  /\ MapHas(hist.loaded, "p1")
  /\ MapGet(analytics, "p1").total_uses = 4
  /\ AllPrompts(packages)[1].usage_count = 1

====
